---- MODULE Spec2Model ----
(***************************************************************************)
(* Continuous-mode acquisition loop of chwspi.c: the ring buffer `data`,   *)
(* the trigger counter `s_counter`, the linearisation `fix_buffer` and the *)
(* hand-off to `write_file`.                                               *)
(*                                                                         *)
(* The source is built with samples = 20000 and CHN_AMOUNT = 4.  The model *)
(* keeps every expression of the source in terms of `samples` and          *)
(* CHN_AMOUNT and runs it with a scaled-down window (WindowTicks) and      *)
(* channel count, so that the ring wraps several times within MaxTicks.    *)
(***************************************************************************)
EXTENDS Integers, Sequences, FiniteSets

(* ------------------------------ bounds --------------------------------- *)
\* Window capacity the model runs with (the build has samples = 20000).
WindowTicks == 5
\* Channels per tick the model runs with (the build has CHN_AMOUNT = 4).
CHN_AMOUNT == 2
\* Number of loop iterations explored.
MaxTicks == 11

(* ------------------------- program constants --------------------------- *)
blocks == 1
threshold == 450

\* The null pointer: spi_transfer's failure value.  A buffer is a sequence,
\* so the empty sequence is free to stand for "no buffer".
NULL == << >>
\* Content of malloc'ed memory that was never written: an indeterminate
\* value.  It only ever flows data -> data_fixed -> file, never into a
\* comparison, so one token stands for every value it may turn out to be.
Indeterminate == -1
\* What a read outside the buffer yields (no such read exists in the code
\* as written; the token makes fix_buffer total).
OutOfBounds == -2

VARIABLES
    samples,     \* const int samples: fixed for a run
    pc,          \* position of main
    i,           \* loop index: tick slot in the ring
    j,           \* channel index of the store loop
    data_buf,    \* readings of the current tick, or NULL
    data,        \* the ring buffer, samples * CHN_AMOUNT ints (index 0 is data[1])
    data_fixed,  \* output of fix_buffer
    s_counter,   \* trigger counter
    ticks,       \* history: number of loop iterations started
    window,      \* history: the last <= samples ticks stored, oldest first
    t0,          \* history: tick at which s_counter was last set to 1, -1 if none pending
    pending,     \* history: triggers fired minus captures emitted
    last_store   \* the sink: what became of the last window given to write_file

vars == << samples, pc, i, j, data_buf, data, data_fixed, s_counter,
           ticks, window, t0, pending, last_store >>

\* Readings the sample source can deliver: just below and exactly at the
\* threshold.
Readings == { threshold - 1, threshold }

\* One reading per channel; value at channel c (0-based) is v[c + 1].
AllAt(v) == [ c \in 1..(CHN_AMOUNT * blocks) |-> v ]
OneAt(k) == [ c \in 1..(CHN_AMOUNT * blocks) |->
                IF c = k THEN threshold ELSE threshold - 1 ]
\* The tick patterns drawn from the sample source: nothing crosses, only the
\* last channel is exactly at the threshold, every channel is.
TickInputs == { AllAt(threshold - 1), OneAt(CHN_AMOUNT * blocks), AllAt(threshold) }

\* The completion threshold of line 208 (integer division, as in C).
Sustain == (samples * 2) \div 3

(* ----------------------------- fix_buffer ------------------------------ *)
\* The loop of fix_buffer: the sequence of << c, i >> pairs it visits, c the
\* position written in buf_r and i the position read in buf.
\* (i1, the index after the wrap test, and the walk are bound as the one
\* element of a set so that each is computed once.)
\* Mutant: the wrap test written > instead of >=.
RECURSIVE fix_walk_late_wrap(_, _, _)
fix_walk_late_wrap(c, idx, acc) ==
    IF c >= samples * CHN_AMOUNT THEN acc
    ELSE CHOOSE r \in { fix_walk_late_wrap(c + 1, i1 + 1, Append(acc, << c, i1 >>)) :
                         i1 \in { IF idx > samples * CHN_AMOUNT THEN 0 ELSE idx } } : TRUE

RECURSIVE fix_walk(_, _, _)
fix_walk(c, idx, acc) ==
    IF c >= samples * CHN_AMOUNT THEN acc
    ELSE CHOOSE r \in { fix_walk(c + 1, i1 + 1, Append(acc, << c, i1 >>)) :
                         i1 \in { IF idx >= samples * CHN_AMOUNT THEN 0 ELSE idx } } : TRUE

\* buf[idx] for a 0-based idx.
ReadAt(buf, idx) ==
    IF idx + 1 \in DOMAIN buf THEN buf[idx + 1] ELSE OutOfBounds

\* buf_r after the assignments buf_r[c] = buf[i] of a walk.
Copied(buf, buf_r, walk) ==
    [ k \in DOMAIN buf_r |->
        IF \E n \in DOMAIN walk : walk[n][1] = k - 1
        THEN LET n == CHOOSE m \in DOMAIN walk : walk[m][1] = k - 1
             IN  ReadAt(buf, walk[n][2])
        ELSE buf_r[k] ]

\* Mutant: the walk starts at the tick after offset.
fix_buffer_from_next(buf, buf_r, offset) ==
    CHOOSE r \in { Copied(buf, buf_r, walk) :
                     walk \in { fix_walk(0, (offset + 1) * CHN_AMOUNT, << >>) } } : TRUE

fix_buffer(buf, buf_r, offset) ==
    CHOOSE r \in { Copied(buf, buf_r, walk) :
                     walk \in { fix_walk(0, offset * CHN_AMOUNT, << >>) } } : TRUE

(* ----------------------------- the trigger ----------------------------- *)
\* Mutant: the counter is not tested before the crossing test.
fires_rearmed(cnt, v) == v >= threshold
\* Mutant: the crossing test is strict.
fires_strict(cnt, v) == cnt = 0 /\ v > threshold

\* Line 201: the condition of the store loop's if.
fires(cnt, v) == cnt = 0 /\ v >= threshold

\* Mutant: the counter runs only while the readings stay at or above the
\* threshold.
arm_while_above(cnt, v) ==
    IF cnt = 0 /\ v >= threshold THEN 1 ELSE IF v < threshold THEN 0 ELSE cnt

\* Mutant: every crossing channel counts.
arm_per_channel(cnt, v) == IF v >= threshold THEN cnt + 1 ELSE cnt

\* Lines 201-204: the counter after the store loop's if.
arm(cnt, v) == IF fires(cnt, v) THEN 1 ELSE cnt

\* Line 207
advance(cnt) == IF cnt # 0 THEN cnt + 1 ELSE cnt

\* Mutant: the fraction of line 208 inverted, 3/2 of the window.
complete_late(cnt) == cnt >= (samples * 3) \div 2

\* Mutant: the threshold rounded up.
complete_ceil(cnt) == cnt >= (samples * 2 + 2) \div 3

\* Line 208
complete(cnt) == cnt >= (samples * 2) \div 3

(* ------------------------------- Init ---------------------------------- *)
\* The locals of main before its "Main loop".
InitLocals ==
    /\ i = 0
    /\ j = 0
    /\ data_buf = [ c \in 1..(CHN_AMOUNT * blocks) |-> Indeterminate ]
    /\ data = [ k \in 1..(samples * CHN_AMOUNT) |-> Indeterminate ]
    /\ data_fixed = [ k \in 1..(samples * CHN_AMOUNT) |-> Indeterminate ]
    /\ s_counter = 0
    /\ ticks = 0
    /\ window = << >>
    /\ t0 = -1
    /\ pending = 0
    /\ last_store = "none"

\* The build with MODE 1: main enters the continuous loop.
InitRun == pc = "transfer" /\ InitLocals

Init == samples = WindowTicks /\ InitRun

\* A build whose window is a single tick: (samples * 2) / 3 is 0.
InitDegenerate == samples = 1 /\ InitRun

(* ------------------------------ actions -------------------------------- *)
\* Mutant: the wrap test written > instead of >=.
wrap_late(idx) == IF idx > samples THEN 0 ELSE idx

\* Line 194: the loop index wraps at the head of the iteration.
wrap(idx) == IF idx >= samples THEN 0 ELSE idx

\* Loop head and a successful spi_transfer: the readings land in data_buf.
TransferOk ==
    /\ pc = "transfer" /\ ticks < MaxTicks
    /\ data_buf # NULL
    /\ \E rd \in TickInputs : data_buf' = rd
    /\ i' = wrap(i)
    /\ j' = 0
    /\ ticks' = ticks + 1
    /\ pc' = "store"
    /\ UNCHANGED << samples, data, data_fixed, s_counter, window, t0, pending, last_store >>

\* Loop head and a failed ioctl: spi_transfer returns NULL, which main
\* assigns to data_buf without a test.
TransferFail ==
    /\ pc = "transfer" /\ ticks < MaxTicks
    /\ data_buf' = NULL
    /\ i' = wrap(i)
    /\ j' = 0
    /\ ticks' = ticks + 1
    /\ pc' = "store"
    /\ UNCHANGED << samples, data, data_fixed, s_counter, window, t0, pending, last_store >>

\* Loop head with data_buf already NULL and an ioctl that succeeds:
\* spi_transfer stores through the null buf (undefined behaviour: the
\* process dies, or the stores are lost) and returns it.
TransferNullBuf ==
    /\ pc = "transfer" /\ ticks < MaxTicks
    /\ data_buf = NULL
    /\ i' = wrap(i)
    /\ ticks' = ticks + 1
    /\ \/ pc' = "segv_spi_transfer" /\ j' = j
       \/ pc' = "store" /\ j' = 0
    /\ UNCHANGED << samples, data_buf, data, data_fixed, s_counter, window, t0,
                    pending, last_store >>

\* Mutant: the store loop is left after its first channel.
StoreValue_leave_early(v, w) ==
    /\ data' = [ data EXCEPT ![i * CHN_AMOUNT * blocks + j + 1] = v ]
    /\ window' = IF j = 0
                 THEN (IF Len(window) >= samples /\ window # << >>
                       THEN Tail(window) ELSE window) \o << << v >> >>
                 ELSE [ window EXCEPT ![Len(window)] = Append(@, v) ]
    /\ s_counter' = arm(s_counter, w)
    /\ t0' = IF fires(s_counter, w) THEN ticks - 1 ELSE t0
    /\ pending' = IF fires(s_counter, w) THEN pending + 1 ELSE pending
    /\ j' = j + 1
    /\ pc' = "count"
    /\ UNCHANGED << samples, i, data_buf, data_fixed, ticks, last_store >>

\* The body of the store loop for channel j: v is what the read of
\* data_buf[j] on line 199 yields, w what the read on line 201 yields.
StoreValue(v, w) ==
    /\ data' = [ data EXCEPT ![i * CHN_AMOUNT * blocks + j + 1] = v ]
    /\ window' = IF j = 0
                 THEN (IF Len(window) >= samples /\ window # << >>
                       THEN Tail(window) ELSE window) \o << << v >> >>
                 ELSE [ window EXCEPT ![Len(window)] = Append(@, v) ]
    /\ s_counter' = arm(s_counter, w)
    /\ t0' = IF fires(s_counter, w) THEN ticks - 1 ELSE t0
    /\ pending' = IF fires(s_counter, w) THEN pending + 1 ELSE pending
    /\ j' = j + 1
    /\ pc' = IF j + 1 < CHN_AMOUNT * blocks THEN "store" ELSE "count"
    /\ UNCHANGED << samples, i, data_buf, data_fixed, ticks, last_store >>

\* Mutant: the crossing test looks one channel ahead of the one stored.
Store_lookahead ==
    /\ pc = "store" /\ j < CHN_AMOUNT * blocks
    /\ data_buf # NULL
    /\ StoreValue(data_buf[j + 1],
                  data_buf[IF j + 2 <= CHN_AMOUNT * blocks THEN j + 2 ELSE j + 1])

Store ==
    /\ pc = "store" /\ j < CHN_AMOUNT * blocks
    /\ data_buf # NULL
    /\ StoreValue(data_buf[j + 1], data_buf[j + 1])

\* The store loop reading through a null data_buf: undefined behaviour.
\* The process dies on the read, or each read yields some value: the one
\* stored is indeterminate, the one compared is any reading.
StoreNull ==
    /\ pc = "store" /\ j < CHN_AMOUNT * blocks
    /\ data_buf = NULL
    /\ \/ /\ pc' = "segv_store"
          /\ UNCHANGED << samples, i, j, data_buf, data, data_fixed, s_counter,
                          ticks, window, t0, pending, last_store >>
       \/ \E w \in Readings : StoreValue(Indeterminate, w)

\* Lines 207-208: advance the counter and test for completion; when the
\* window is not complete the iteration ends (i++).
Count ==
    /\ pc = "count"
    /\ s_counter' = advance(s_counter)
    /\ IF complete(advance(s_counter))
       THEN pc' = "fix" /\ i' = i
       ELSE pc' = "transfer" /\ i' = i + 1
    /\ UNCHANGED << samples, j, data_buf, data, data_fixed, ticks, window, t0,
                    pending, last_store >>

\* Mutant: the window is rotated in place, in the ring itself, and the ring
\* is what comes back.
Fix_in_place ==
    /\ pc = "fix"
    /\ data' = fix_buffer(data, data, i)
    /\ data_fixed' = data'
    /\ pc' = "write"
    /\ UNCHANGED << samples, i, j, data_buf, s_counter, ticks, window, t0,
                    pending, last_store >>

\* Line 210
Fix ==
    /\ pc = "fix"
    /\ data_fixed' = fix_buffer(data, data_fixed, i)
    /\ pc' = "write"
    /\ UNCHANGED << samples, i, j, data_buf, data, s_counter, ticks, window, t0,
                    pending, last_store >>

\* Mutant: the counter is left as it is after the window is handed over.
AfterWrite_no_reset ==
    /\ s_counter' = s_counter
    /\ t0' = -1
    /\ pending' = pending - 1
    /\ i' = i + 1
    /\ pc' = "transfer"
    /\ UNCHANGED << samples, j, data_buf, data, data_fixed, ticks, window >>

\* Lines 213-214 and the loop's i++, after write_file returned.
AfterWrite ==
    /\ s_counter' = 0
    /\ t0' = -1
    /\ pending' = pending - 1
    /\ i' = i + 1
    /\ pc' = "transfer"
    /\ UNCHANGED << samples, j, data_buf, data, data_fixed, ticks, window >>

\* Lines 211-214, write_file storing the window.
WriteOk ==
    /\ pc = "write"
    /\ last_store' = "stored"
    /\ AfterWrite

\* write_file with a file that opens and a write that fails (fprintf's
\* result is not looked at): nothing is stored, the loop goes on.
WriteIoError ==
    /\ pc = "write"
    /\ last_store' = "lost"
    /\ AfterWrite

\* write_file when fopen fails: fprintf and fclose on a null FILE pointer,
\* undefined behaviour.  The process dies, or the calls have no effect.
WriteOpenFail ==
    /\ pc = "write"
    /\ \/ /\ pc' = "segv_write_file"
          /\ UNCHANGED << samples, i, j, data_buf, data, data_fixed, s_counter,
                          ticks, window, t0, pending, last_store >>
       \/ last_store' = "lost" /\ AfterWrite

Next ==
    \/ TransferOk
    \/ TransferFail
    \/ TransferNullBuf
    \/ Store
    \/ StoreNull
    \/ Count
    \/ Fix
    \/ WriteOk
    \/ WriteIoError
    \/ WriteOpenFail

Spec == Init /\ [][Next]_vars

\* The same loop, built with the degenerate window.
SpecDegenerate == InitDegenerate /\ [][Next]_vars

\* The loop when every ioctl and every write_file succeeds.  The loop is
\* sequential code with no blocking call other than the transfer and the
\* file write, so whichever statement is next is eventually executed.
NextOk ==
    \/ TransferOk
    \/ Store
    \/ Count
    \/ Fix
    \/ WriteOk

SpecLive == Init /\ [][NextOk]_vars /\ WF_vars(NextOk)

\* An external stop request (SIGINT, SIGTERM).  main installs no handler and
\* the loop tests no flag, so the default disposition ends the process at
\* whatever statement it is executing.
Stop ==
    /\ pc \in { "transfer", "store", "count", "fix", "write" }
    /\ pc' = CASE pc = "transfer" -> "killed_transfer"
                [] pc = "store"    -> "killed_store"
                [] pc = "count"    -> "killed_count"
                [] pc = "fix"      -> "killed_fix"
                [] pc = "write"    -> "killed_write"
    /\ UNCHANGED << samples, i, j, data_buf, data, data_fixed, s_counter, ticks,
                    window, t0, pending, last_store >>

NextStop ==
    \/ NextOk
    \/ Stop

\* The continuous loop with working transfers and writes and a stop request
\* that may arrive at any time.
SpecStop == Init /\ [][NextStop]_vars

(* ------------------------ single-measurement mode ---------------------- *)
\* The build with MODE 0: the else branch of main's "Main loop" and the
\* code after it.
InitBurst == samples = WindowTicks /\ pc = "b_transfer" /\ InitLocals

\* Mutant: the loop condition written <= instead of <.
burst_more_inclusive(idx) == idx <= samples

\* Line 219: the loop condition.
burst_more(idx) == idx < samples

\* Line 220 with a successful spi_transfer.
BurstTransferOk ==
    /\ pc = "b_transfer" /\ burst_more(i)
    /\ data_buf # NULL
    /\ \E rd \in TickInputs : data_buf' = rd
    /\ j' = 0
    /\ ticks' = ticks + 1
    /\ pc' = "b_store"
    /\ UNCHANGED << samples, i, data, data_fixed, s_counter, window, t0, pending,
                    last_store >>

\* Line 220 with a failed ioctl: data_buf becomes NULL.
BurstTransferFail ==
    /\ pc = "b_transfer" /\ burst_more(i)
    /\ data_buf' = NULL
    /\ j' = 0
    /\ ticks' = ticks + 1
    /\ pc' = "b_store"
    /\ UNCHANGED << samples, i, data, data_fixed, s_counter, window, t0, pending,
                    last_store >>

\* Line 220 with data_buf already NULL and an ioctl that succeeds: the
\* stores of spi_transfer go through the null buf (undefined behaviour).
BurstTransferNullBuf ==
    /\ pc = "b_transfer" /\ burst_more(i)
    /\ data_buf = NULL
    /\ ticks' = ticks + 1
    /\ \/ pc' = "segv_spi_transfer" /\ j' = j
       \/ pc' = "b_store" /\ j' = 0
    /\ UNCHANGED << samples, i, data_buf, data, data_fixed, s_counter, window, t0,
                    pending, last_store >>

\* Line 223 for channel j, storing v; after the last channel, i += blocks.
BurstStoreValue(v) ==
    /\ data' = [ data EXCEPT ![i * CHN_AMOUNT * blocks + j + 1] = v ]
    /\ window' = IF j = 0
                 THEN (IF Len(window) >= samples /\ window # << >>
                       THEN Tail(window) ELSE window) \o << << v >> >>
                 ELSE [ window EXCEPT ![Len(window)] = Append(@, v) ]
    /\ j' = j + 1
    /\ IF j + 1 < CHN_AMOUNT * blocks
       THEN pc' = "b_store" /\ i' = i
       ELSE pc' = "b_transfer" /\ i' = i + blocks
    /\ UNCHANGED << samples, data_buf, data_fixed, s_counter, ticks, t0, pending,
                    last_store >>

BurstStore ==
    /\ pc = "b_store" /\ j < CHN_AMOUNT * blocks
    /\ data_buf # NULL
    /\ BurstStoreValue(data_buf[j + 1])

\* Line 223 reading through a null data_buf: undefined behaviour.
BurstStoreNull ==
    /\ pc = "b_store" /\ j < CHN_AMOUNT * blocks
    /\ data_buf = NULL
    /\ \/ /\ pc' = "segv_store"
          /\ UNCHANGED << samples, i, j, data_buf, data, data_fixed, s_counter,
                          ticks, window, t0, pending, last_store >>
       \/ BurstStoreValue(Indeterminate)

\* The loop condition fails: lines 228-235, up to the call of write_file.
BurstEnd ==
    /\ pc = "b_transfer" /\ ~ burst_more(i)
    /\ pc' = "b_write"
    /\ UNCHANGED << samples, i, j, data_buf, data, data_fixed, s_counter, ticks,
                    window, t0, pending, last_store >>

\* Lines 236-246: write_file(data, filename), the frees and the return.
BurstWrite ==
    /\ pc = "b_write"
    /\ \/ last_store' = "stored" /\ pc' = "done"
       \/ last_store' = "lost" /\ pc' = "done"
       \/ last_store' = last_store /\ pc' = "segv_write_file"
    /\ UNCHANGED << samples, i, j, data_buf, data, data_fixed, s_counter, ticks,
                    window, t0, pending >>

NextBurst ==
    \/ BurstTransferOk
    \/ BurstTransferFail
    \/ BurstTransferNullBuf
    \/ BurstStore
    \/ BurstStoreNull
    \/ BurstEnd
    \/ BurstWrite

SpecBurst == InitBurst /\ [][NextBurst]_vars

(* ------------------------------ claims --------------------------------- *)
RECURSIVE Flatten(_)
Flatten(ts) == IF ts = << >> THEN << >> ELSE Head(ts) \o Flatten(Tail(ts))

\* ceil(2/3 * samples)
CeilSustain == (samples * 2 + 2) \div 3

\* Positions of a tick at which line 207 has not yet run.
BeforeCount == { "store", "count", "segv_store", "segv_spi_transfer" }

\* C1 as stated: after fix_buffer at tick i, with at least samples ticks
\* written, data_fixed is the last samples ticks oldest first, tick i last.
C1_OldestFirst ==
    (pc = "write" /\ ticks >= samples) => data_fixed = Flatten(window)

\* C1 amended: after fix_buffer at tick i, with at least samples ticks
\* written, data_fixed starts with the readings of tick i, the latest tick,
\* and goes on with the other samples - 1 ticks of the window, oldest first.
C1_LatestThenOldestFirst ==
    (pc = "write" /\ ticks >= samples) =>
        data_fixed = Flatten(<< window[Len(window)] >>
                             \o SubSeq(window, 1, Len(window) - 1))

\* C1 witness: an extraction after the ring has wrapped twice whose output
\* is not the chronological window.
C1_Witness ==
    /\ pc = "write" /\ ticks > 2 * samples
    /\ data_fixed # Flatten(window)
    /\ \A k \in DOMAIN data_fixed : data_fixed[k] \in Readings

\* C2 as stated: the capture that follows a crossing at tick t0 completes
\* exactly at tick t0 + ceil(2/3 * samples) - 1.
C2_CompletionAtCeilMinus1 ==
    pc = "fix" => ticks - 1 = t0 + CeilSustain - 1

\* C2 amended: the capture that follows a crossing at tick t0 completes
\* exactly at tick t0 + floor(2 * samples / 3) - 2, not earlier and not
\* later (samples >= 3).
C2_CompletionAtFloorMinus2 ==
    /\ pc = "fix" => ticks - 1 = t0 + Sustain - 2
    /\ (pc = "transfer" /\ s_counter > 0) => ticks - 1 < t0 + Sustain - 2

\* C2 witness: a completion, after a wrap, of a count that spans more than
\* the crossing tick.
C2_Witness == pc = "fix" /\ t0 >= samples /\ ticks - 1 > t0

\* C3: fix_buffer is only called once at least samples ticks have been
\* written, so that every position of the ring holds an acquired reading.
C3_NoPartialWindow ==
    pc = "fix" =>
        /\ ticks >= samples
        /\ \A k \in DOMAIN data : data[k] # Indeterminate

\* C4: for every offset in 0..samples-1 fix_buffer writes each output
\* position 0..samples*CHN_AMOUNT-1 exactly once and reads only indices in
\* 0..samples*CHN_AMOUNT-1; the output of an extraction has that length.
\* (The walk depends on samples and CHN_AMOUNT alone, which never change:
\* it is evaluated in the initial state.)
C4_ExtractionLength ==
    /\ ticks = 0 =>
         \A off \in 0..(samples - 1) :
           LET walk == fix_walk(0, off * CHN_AMOUNT, << >>)
           IN  /\ Len(walk) = samples * CHN_AMOUNT
               /\ \A n \in DOMAIN walk :
                    /\ walk[n][1] = n - 1
                    /\ walk[n][2] \in 0..(samples * CHN_AMOUNT - 1)
    /\ pc = "write" =>
         /\ DOMAIN data_fixed = 1..(samples * CHN_AMOUNT)
         /\ \A k \in DOMAIN data_fixed : data_fixed[k] # OutOfBounds

\* C4 witness: an extraction whose walk wraps in the middle of the output.
C4_Witness == pc = "write" /\ i = samples - 2 /\ ticks >= samples

\* C5: a crossing read while the counter runs neither restarts the counter
\* nor adds a capture: at most one capture is pending, one is pending
\* exactly while the counter runs, and the counter is the number of ticks
\* since the crossing that started it.
C5_NoDoubleCapture ==
    /\ pending \in {0, 1}
    /\ pending = 1 <=> s_counter > 0
    /\ s_counter > 0 =>
         s_counter = (ticks - 1 - t0) + (IF pc \in BeforeCount THEN 1 ELSE 2)

\* C5 witness: the store loop has gone through a tick of crossing readings
\* with the counter already running.
C5_Witness ==
    /\ pc = "count" /\ s_counter >= 2 /\ pending = 1
    /\ data_buf = AllAt(threshold)

C7_FiresOncePerTick ==
    (/\ pc = "count" /\ data_buf # NULL
     /\ Cardinality({ c \in DOMAIN data_buf : data_buf[c] >= threshold }) >= 2) =>
        /\ pending = 1
        /\ s_counter >= 1
        /\ t0 = ticks - 1 => s_counter = 1

\* C7 witness: every channel crossed in the tick that started the counter.
C7_Witness ==
    /\ pc = "count" /\ data_buf = AllAt(threshold) /\ CHN_AMOUNT * blocks >= 2
    /\ t0 = ticks - 1 /\ s_counter = 1 /\ pending = 1

\* C8: a window that cannot be stored does not end the loop: the process
\* never dies in write_file.
C8_StorageFailureKeepsLoop == pc # "segv_write_file"

\* C9: once spi_transfer has returned NULL the loop processes no further
\* tick: the tick index does not move and nothing is stored in the ring.
C9_AbortOnTransferFailure ==
    [][data_buf = NULL => (i' = i /\ data' = data)]_vars

\* C10: a build whose completion threshold resolves to 0 is rejected before
\* any tick: no transfer, no store in the ring, no capture.
C10_DegenerateRejected ==
    (samples <= 0 \/ CHN_AMOUNT <= 0 \/ Sustain = 0) =>
        /\ ticks = 0
        /\ \A k \in DOMAIN data : data[k] = Indeterminate
        /\ last_store = "none"

\* C11: in single-measurement mode the trigger counter and data_fixed are
\* never touched; when the loop is over exactly samples ticks have been
\* acquired and data holds them at positions 0..samples*CHN_AMOUNT-1 in tick
\* order; write_file is called once, after the loop, and not before.
C11_BurstDeterminism ==
    /\ s_counter = 0 /\ pending = 0 /\ t0 = -1
    /\ \A k \in DOMAIN data_fixed : data_fixed[k] = Indeterminate
    /\ pc \in { "b_write", "done" } =>
         /\ ticks = samples
         /\ Len(window) = samples
         /\ data = Flatten(window)
    /\ last_store # "none" <=> pc = "done"

\* C11 witness: a finished run whose readings crossed the threshold.
C11_Witness ==
    /\ pc = "done" /\ last_store = "stored" /\ data_buf # NULL
    /\ \E k \in DOMAIN data : data[k] >= threshold

\* C12: an extraction leaves every position of the ring as it was, and a
\* second extraction at the same tick, with no store in between, returns
\* the output of the first, whatever the output buffer held before.
C12_IdempotentNonMutation ==
    [][pc = "fix" =>
         /\ data' = data
         /\ fix_buffer(data', data_fixed', i') = data_fixed'
         /\ fix_buffer(data', [ k \in DOMAIN data_fixed |-> OutOfBounds ], i')
              = data_fixed']_vars

\* C12 witness: an extraction into an output buffer that held an earlier,
\* different window.
C12_Witness ==
    /\ pc = "write" /\ last_store = "stored" /\ ticks >= samples
    /\ data_fixed # data
    /\ \A k \in DOMAIN data_fixed : data_fixed[k] \in Readings

\* Number of ticks whose first reading has been stored.
Started ==
    IF pc = "segv_spi_transfer" \/ (pc \in { "store", "segv_store" } /\ j = 0)
    THEN ticks - 1 ELSE ticks

\* C13: after n ticks the ring holds the most recent min(n, samples) ticks,
\* channel c of tick t at index (t mod samples) * CHN_AMOUNT + c, the slots
\* no tick has reached are untouched, and the index the store loop writes
\* is within 0..samples*CHN_AMOUNT-1.
C13_RingContent ==
    /\ DOMAIN data = 1..(samples * CHN_AMOUNT)
    /\ Len(window) = (IF Started < samples THEN Started ELSE samples)
    /\ \A k \in 1..Len(window) :
         LET t == Started - Len(window) + k - 1
         IN  /\ k < Len(window) => Len(window[k]) = CHN_AMOUNT
             /\ \A c \in 1..Len(window[k]) :
                  data[(t % samples) * CHN_AMOUNT + c] = window[k][c]
    /\ \A k \in DOMAIN data :
         k > Started * CHN_AMOUNT => data[k] = Indeterminate
    /\ pc = "store" =>
         i * CHN_AMOUNT * blocks + j \in 0..(samples * CHN_AMOUNT - 1)

\* C13 witness: the ring has wrapped twice and the tick being stored has
\* overwritten part of the slot of the tick samples ticks before it.
C13_Witness ==
    /\ pc = "store" /\ j = 1 /\ ticks > 2 * samples
    /\ data[i * CHN_AMOUNT + 1] # data[i * CHN_AMOUNT + 2]
    /\ \A k \in DOMAIN data : data[k] \in Readings

\* C14: while the counter runs the store loop leaves it alone, whatever the
\* readings, line 207 adds exactly 1 to it in every tick, and the window is
\* complete when it has reached (samples * 2) / 3.
C14_CountsTicksNotCrossings ==
    /\ [][/\ (pc = "store" /\ s_counter > 0) => s_counter' = s_counter
          /\ (pc = "count" /\ s_counter > 0) => s_counter' = s_counter + 1]_vars
    /\ [](pc = "fix" => s_counter = Sustain)

\* C14 witness: the counter has gone through a tick whose readings are all
\* below the threshold and is about to complete.
C14_Witness ==
    /\ pc = "count" /\ s_counter >= 2 /\ complete(s_counter + 1)
    /\ data_buf = AllAt(threshold - 1)

\* C15 as stated: the crossing that starts the counter in tick t is decided,
\* and the completion is tested, only when all the readings of tick t are in
\* the ring.
C15_DecisionAfterWholeTick ==
    /\ (t0 = ticks - 1 /\ s_counter = 1) => pc \notin { "store", "segv_store" }
    /\ pc = "fix" => j = CHN_AMOUNT * blocks

\* C15 amended: the crossing test of channel j of tick t is made when
\* reading j of tick t is in the ring, before the later channels of the tick
\* are stored; the completion is tested when all the readings of tick t are
\* in the ring.
C15_DecisionAfterOwnStore ==
    /\ (t0 = ticks - 1 /\ s_counter = 1 /\ pc \in { "store", "count", "segv_store" }) =>
         /\ j >= 1
         /\ Len(window[Len(window)]) = j
         /\ data_buf # NULL =>
              \E c \in 1..j :
                 /\ data[i * CHN_AMOUNT * blocks + c] = data_buf[c]
                 /\ data_buf[c] >= threshold
    /\ pc \in { "fix", "write" } =>
         /\ j = CHN_AMOUNT * blocks
         /\ Len(window[Len(window)]) = CHN_AMOUNT * blocks
         /\ \A c \in 1..(CHN_AMOUNT * blocks) :
              data[i * CHN_AMOUNT * blocks + c] = window[Len(window)][c]

\* C15 witness: the counter was started by the first channel of a tick whose
\* later channels are not stored yet.
C15_Witness ==
    /\ pc = "store" /\ j = 1 /\ j < CHN_AMOUNT * blocks
    /\ t0 = ticks - 1 /\ s_counter = 1
    /\ data_buf = AllAt(threshold)

\* The number of loop iterations still to start before a running counter
\* reaches Sustain.
Remaining ==
    IF pc \in { "store", "count" } THEN Sustain - s_counter - 1 ELSE Sustain - s_counter

\* C16: with transfers and file writes that succeed, a running counter
\* always leads to a stored window and a counter back at 0 (for every count
\* that can end within the MaxTicks iterations explored), and with the
\* counter at 0 a tick holding a reading >= threshold leaves the store loop
\* with the counter running again.
C16_NoAbsorbingState ==
    /\ (s_counter > 0 /\ ticks + Remaining <= MaxTicks)
          ~> (s_counter = 0 /\ pc = "transfer" /\ last_store = "stored")
    /\ [](pc = "count" /\ (\E c \in DOMAIN data_buf : data_buf[c] >= threshold)
            => s_counter > 0)

\* C16 witness: a window was stored, the counter went back to 0 and a later
\* tick has started it again.
C16_Witness ==
    /\ last_store = "stored" /\ pc = "count" /\ s_counter = 1
    /\ \E c \in DOMAIN data_buf : data_buf[c] >= threshold

\* C17: a tick's readings are stored in full or not at all: once a transfer
\* has failed (data_buf is NULL) no step changes the ring, and the process
\* never stops between the first and the last store of a tick.
C17_TickStoredWholeOrNotAtAll ==
    /\ [][data_buf' = NULL => data' = data]_vars
    /\ [](pc = "segv_store" => j \in { 0, CHN_AMOUNT * blocks })

\* C18: the window is extracted only between ticks: when fix_buffer is
\* called and until its result is handed to write_file, the store loop of
\* the current tick has run for all the channels, every tick slot of the
\* ring holds the readings of one whole tick (or was never stored), and the
\* copy is the one fix_buffer makes of the ring as it is when the copy ends.
C18_ExtractionBetweenTicks ==
    pc \in { "fix", "write" } =>
        /\ j = CHN_AMOUNT * blocks
        /\ Len(window[Len(window)]) = CHN_AMOUNT * blocks
        /\ \A slot \in 0..(samples - 1) :
              \/ \A c \in 1..(CHN_AMOUNT * blocks) :
                    data[slot * CHN_AMOUNT * blocks + c] = Indeterminate
              \/ \E k \in DOMAIN window :
                    /\ Len(window[k]) = CHN_AMOUNT * blocks
                    /\ \A c \in 1..(CHN_AMOUNT * blocks) :
                          data[slot * CHN_AMOUNT * blocks + c] = window[k][c]
        /\ pc = "write" => data_fixed = fix_buffer(data, data_fixed, i)

\* C18 witness: fix_buffer is about to run on a ring that has wrapped and
\* holds readings in every position.
C18_Witness ==
    /\ pc = "fix" /\ j = CHN_AMOUNT * blocks /\ ticks > samples
    /\ \A k \in DOMAIN data : data[k] \in Readings
    /\ \E k \in DOMAIN data : data[k] # data[1]

\* C19: a stop request never ends the process inside the continuous loop,
\* neither in the middle of a tick or of an extraction nor between two ticks:
\* the loop is left and the run goes on to the code after it (the rate
\* report and the frees).
C19_CleanShutdown ==
    pc \notin { "killed_store", "killed_count", "killed_fix", "killed_write",
                "killed_transfer" }

\* The number of ticks started after the one that started the counter.
SinceCrossing == ticks - 1 - t0

\* C20: when a window is extracted, fewer ticks than the ring holds have been
\* started since the tick that started the counter, so the readings of that
\* tick are still in its ring slot, and they are in the extracted window (at
\* the tick position that fix_buffer gives to the tick SinceCrossing ticks
\* before the latest); where they are readings, one of them is >= threshold.
C20_WindowHoldsCrossingTick ==
    pc \in { "fix", "write" } =>
        /\ t0 >= 0
        /\ SinceCrossing >= 0 /\ SinceCrossing < samples
        /\ Len(window) > SinceCrossing
        /\ LET crossing == window[Len(window) - SinceCrossing]
               slot == t0 % samples
               at == (samples - SinceCrossing) % samples
           IN  /\ \A c \in 1..(CHN_AMOUNT * blocks) :
                     data[slot * CHN_AMOUNT * blocks + c] = crossing[c]
               /\ pc = "write" =>
                     \A c \in 1..(CHN_AMOUNT * blocks) :
                        data_fixed[at * CHN_AMOUNT * blocks + c] = crossing[c]
               /\ (\A c \in 1..(CHN_AMOUNT * blocks) : crossing[c] \in Readings) =>
                     \E c \in 1..(CHN_AMOUNT * blocks) : crossing[c] >= threshold

\* C20 witness: a window extracted one tick or more after the crossing, on a
\* ring that has wrapped, the latest tick holding no reading >= threshold.
C20_Witness ==
    /\ pc = "write" /\ samples >= 2 /\ ticks > samples
    /\ SinceCrossing >= 1 /\ t0 >= 0
    /\ data_buf = AllAt(threshold - 1)
    /\ \E c \in 1..(CHN_AMOUNT * blocks) :
          data_fixed[(samples - SinceCrossing) * CHN_AMOUNT * blocks + c] >= threshold

====
